---- MODULE Spec2Model ----
(***************************************************************************)
(* Model of the Stripe MCP server (src/src/index.ts): the fraud            *)
(* recommendation evaluator deriveRecommendation, the stripe_fraud_insight *)
(* handler with buildFraudInsight, the stripe_create_refund and            *)
(* stripe_raw_request handlers, createServer with its tool registration,   *)
(* and the Logger (src/unnamed/part_001).                                  *)
(*                                                                         *)
(* Optional values (undefined / null in the source) are modelled as        *)
(* sequences of length 0 or 1: None is <<>>, Some(v) is <<v>>.             *)
(* Identifier strings are sequences of one-character strings, so that      *)
(* zod's .trim() is computed character by character (the space is the     *)
(* one whitespace character of the alphabet).  The handlers' logger calls  *)
(* write to the console only and are not part of the handler state here;   *)
(* the Logger is modelled on its own under SpecLog.                        *)
(***************************************************************************)
EXTENDS Integers, Sequences, FiniteSets, TLC

VARIABLES
    args,          \* the tool invocation's arguments as sent by the client
    req,           \* the running tool handler: its position, locals and effects
    evalArgs,      \* evaluator harness: the arguments of each invocation slot
    evalResult,    \* evaluator harness: the value each invocation returned
    invocations,   \* evaluator harness: number of invocations made so far
    server,        \* the server built by createServer: configuration, registered tools
    loggers,       \* the Logger objects created so far
    logCall,       \* the last call of Logger.log: logger, level, message, context
    emitted        \* what that call wrote to the console, if anything

handlerVars == <<args, req>>

evalVars == <<evalArgs, evalResult, invocations>>

serverVars == <<server>>

logVars == <<loggers, logCall, emitted>>

vars == <<args, req, evalArgs, evalResult, invocations, server, loggers, logCall, emitted>>

-----------------------------------------------------------------------------
(* Optional values *)

None == <<>>

Some(v) == <<v>>

\* a ?? b
Coalesce(opt, default) == IF opt = None THEN default ELSE opt[1]

-----------------------------------------------------------------------------
(* Bounds of the evaluator's input domain *)

MaxWarnings == 2

MaxDisputes == 1

MaxOtherInvocations == 1

RiskLevels == {"normal", "elevated", "highest"}

RiskScores == {0, 49, 50, 74, 75, 100}

OptRiskLevels == {None} \cup {Some(l) : l \in RiskLevels}

OptRiskScores == {None} \cup {Some(s) : s \in RiskScores}

\* charge.outcome: absent, or an object whose risk_level / risk_score may be null
Outcomes == {None} \cup {Some(o) : o \in [risk_level : OptRiskLevels, risk_score : OptRiskScores]}

SeqsUpTo(S, n) == UNION {[1..k -> S] : k \in 0..n}

WarningLists == SeqsUpTo([actionable : BOOLEAN], MaxWarnings)

DisputeLists == SeqsUpTo([id : {"dp_1"}], MaxDisputes)

-----------------------------------------------------------------------------
(* deriveRecommendation, src/src/index.ts:775-822 *)

RefundScoreThreshold == 75

ReviewScoreThreshold == 50

DisputeReason == <<"Existing dispute detected. Prefer immediate refund to reduce losses.">>

WarningReason == <<"Actionable Radar early fraud warning present. Stripe recommends refunding.">>

ElevatedReason == <<"Elevated risk level. Review supporting evidence before issuing refund.">>

MonitorReason == <<"No disputes or actionable warnings. Monitor the transaction for future signals.">>

\* `High risk detected (level: ${riskLevel ?? 'n/a'}, score: ${riskScore}).`
HighRiskReason(riskLevel, riskScore) ==
    <<"High risk detected (level: ", Coalesce(riskLevel, "n/a"), ", score: ",
      ToString(riskScore), ").">>

\* Plausible bug: requires more than one dispute.
HasDisputes_MoreThanOne(disputes) == Len(disputes) > 1

\* disputes.length > 0
HasDisputes(disputes) == Len(disputes) > 0

\* Plausible bug: every() instead of some(), on a non-empty list.
HasActionableWarning_Every(earlyFraudWarnings) ==
    /\ Len(earlyFraudWarnings) > 0
    /\ \A i \in 1..Len(earlyFraudWarnings) : earlyFraudWarnings[i].actionable

\* earlyFraudWarnings.some((warning) => warning.actionable)
HasActionableWarning(earlyFraudWarnings) ==
    \E i \in 1..Len(earlyFraudWarnings) : earlyFraudWarnings[i].actionable

\* charge.outcome?.risk_level ?? null   (null is None)
RiskLevelOf(charge) ==
    IF charge.outcome = None THEN None ELSE charge.outcome[1].risk_level

\* Plausible bug: an absent score defaults to the review threshold instead of 0.
RiskScoreOf_Default50(charge) ==
    IF charge.outcome = None THEN 50 ELSE Coalesce(charge.outcome[1].risk_score, 50)

\* charge.outcome?.risk_score ?? 0
RiskScoreOf(charge) ==
    IF charge.outcome = None THEN 0 ELSE Coalesce(charge.outcome[1].risk_score, 0)

\* Plausible bug: exclusive score boundary.
IsHighRisk_Exclusive(riskLevel, riskScore) ==
    riskLevel = Some("highest") \/ riskScore > RefundScoreThreshold

\* riskLevel === 'highest' || riskScore >= 75
IsHighRisk(riskLevel, riskScore) ==
    riskLevel = Some("highest") \/ riskScore >= RefundScoreThreshold

\* Plausible bug: && instead of ||.
IsElevatedRisk_And(riskLevel, riskScore) ==
    riskLevel = Some("elevated") /\ riskScore >= ReviewScoreThreshold

\* riskLevel === 'elevated' || riskScore >= 50
IsElevatedRisk(riskLevel, riskScore) ==
    riskLevel = Some("elevated") \/ riskScore >= ReviewScoreThreshold

\* Plausible bug: the risk rule is evaluated before the warning rule.
deriveRecommendation_RiskBeforeWarning(charge, earlyFraudWarnings, disputes) ==
    LET riskLevel == RiskLevelOf(charge)
        riskScore == RiskScoreOf(charge)
    IN  IF HasDisputes(disputes)
        THEN [action |-> "refund", reason |-> DisputeReason]
        ELSE IF IsHighRisk(riskLevel, riskScore)
        THEN [action |-> "refund", reason |-> HighRiskReason(riskLevel, riskScore)]
        ELSE IF HasActionableWarning(earlyFraudWarnings)
        THEN [action |-> "refund", reason |-> WarningReason]
        ELSE IF IsElevatedRisk(riskLevel, riskScore)
        THEN [action |-> "manual_review", reason |-> ElevatedReason]
        ELSE [action |-> "monitor", reason |-> MonitorReason]

\* Plausible bug: the charge's own `disputed` flag is read as a dispute signal.
deriveRecommendation_ReadsDisputedFlag(charge, earlyFraudWarnings, disputes) ==
    LET riskLevel == RiskLevelOf(charge)
        riskScore == RiskScoreOf(charge)
    IN  IF HasDisputes(disputes) \/ charge.disputed
        THEN [action |-> "refund", reason |-> DisputeReason]
        ELSE IF HasActionableWarning(earlyFraudWarnings)
        THEN [action |-> "refund", reason |-> WarningReason]
        ELSE IF IsHighRisk(riskLevel, riskScore)
        THEN [action |-> "refund", reason |-> HighRiskReason(riskLevel, riskScore)]
        ELSE IF IsElevatedRisk(riskLevel, riskScore)
        THEN [action |-> "manual_review", reason |-> ElevatedReason]
        ELSE [action |-> "monitor", reason |-> MonitorReason]

deriveRecommendation(charge, earlyFraudWarnings, disputes) ==
    IF HasDisputes(disputes)
    THEN [action |-> "refund", reason |-> DisputeReason]
    ELSE IF HasActionableWarning(earlyFraudWarnings)
    THEN [action |-> "refund", reason |-> WarningReason]
    ELSE LET riskLevel == RiskLevelOf(charge)
             riskScore == RiskScoreOf(charge)
         IN  IF IsHighRisk(riskLevel, riskScore)
             THEN [action |-> "refund", reason |-> HighRiskReason(riskLevel, riskScore)]
             ELSE IF IsElevatedRisk(riskLevel, riskScore)
             THEN [action |-> "manual_review", reason |-> ElevatedReason]
             ELSE [action |-> "monitor", reason |-> MonitorReason]

-----------------------------------------------------------------------------
(* Strings and the zod input schemas, src/src/index.ts:74-124 *)

pi_1 == <<"p", "i", "_", "1">>

ch_1 == <<"c", "h", "_", "1">>

ch_2 == <<"c", "h", "_", "2">>

rv_1 == <<"r", "v", "_", "1">>

RECURSIVE TrimStart(_)
TrimStart(s) == IF s # <<>> /\ Head(s) = " " THEN TrimStart(Tail(s)) ELSE s

RECURSIVE TrimEnd(_)
TrimEnd(s) ==
    IF s # <<>> /\ s[Len(s)] = " " THEN TrimEnd(SubSeq(s, 1, Len(s) - 1)) ELSE s

\* Plausible bug: the schema does not trim.
Trim_Identity(s) == s

\* z.string().trim()
Trim(s) == TrimEnd(TrimStart(s))

\* z.string().trim().optional()
TrimOptional(opt) == IF opt = None THEN None ELSE Some(Trim(opt[1]))

\* JavaScript truthiness of an optional string: present and non-empty
Truthy(opt) == opt # None /\ opt[1] # <<>>

RawPaymentIntentIds == {None, Some(<<>>), Some(<<" ">>), Some(pi_1), Some(<<" ">> \o pi_1)}

RawChargeIds == {None, Some(<<>>), Some(<<" ", " ">>), Some(ch_1), Some(ch_1 \o <<" ">>)}

FraudInsightArgs ==
    [payment_intent_id : RawPaymentIntentIds,
     charge_id : RawChargeIds,
     include_events : {None, Some(TRUE), Some(FALSE)}]

\* fraudInsightSchema: ids trimmed, include_events defaults to true
ParseFraudInsight(a) ==
    [payment_intent_id |-> TrimOptional(a.payment_intent_id),
     charge_id |-> TrimOptional(a.charge_id),
     include_events |-> Coalesce(a.include_events, TRUE)]

RefundArgs ==
    [payment_intent_id : RawPaymentIntentIds,
     charge_id : RawChargeIds,
     amount : {None, Some(500)},
     reason : {None, Some("fraudulent")},
     metadata : {None, Some({}), Some({<<"order", "42">>})}]

\* refundSchema: ids trimmed, the other fields passed through
ParseRefund(a) ==
    [payment_intent_id |-> TrimOptional(a.payment_intent_id),
     charge_id |-> TrimOptional(a.charge_id),
     amount |-> a.amount,
     reason |-> a.reason,
     metadata |-> a.metadata]

-----------------------------------------------------------------------------
(* Objects returned by the payments provider *)

\* An expandable field: the id alone, or the expanded object.
Ref(id) == [expanded |-> FALSE, id |-> id, object |-> None]

Expanded(obj) == [expanded |-> TRUE, id |-> obj.id, object |-> Some(obj)]

PaymentIntents == [id : {pi_1}, status : {"succeeded"}]

Reviews == [id : {rv_1}, open : {TRUE}]

Refunds == [id : {"re_1"}, amount : {500}]

RefundLists == {<<>>, <<[id |-> "re_1", amount |-> 500]>>}

ProviderOutcomes ==
    {None,
     Some([risk_level |-> Some("normal"), risk_score |-> Some(0)]),
     Some([risk_level |-> Some("highest"), risk_score |-> Some(75)])}

ChargeIds == {ch_1, ch_2}

\* The charges the provider returns; the disputed ones carry no review and
\* no payment intent, which keeps the set small.
Charges ==
    {c \in [id : ChargeIds,
            disputed : BOOLEAN,
            outcome : ProviderOutcomes,
            review : {None} \cup {Some(Ref(rv_1))} \cup {Some(Expanded(r)) : r \in Reviews},
            payment_intent : {None} \cup {Some(Ref(pi_1))}
                                \cup {Some(Expanded(p)) : p \in PaymentIntents},
            refunds : {None} \cup {Some(l) : l \in RefundLists}] :
        c.disputed => (c.review = None /\ c.payment_intent = None)}

-----------------------------------------------------------------------------
(* Summaries, src/src/index.ts:657-773 *)

summarizeReview(review) == [id |-> review.id, open |-> review.open]

summarizeEarlyFraudWarning(warning) == [actionable |-> warning.actionable]

summarizeDispute(dispute) == [id |-> dispute.id]

summarizeRefund(refund) == [id |-> refund.id, amount |-> refund.amount]

summarizePaymentIntent(paymentIntent) ==
    [id |-> paymentIntent.id, status |-> paymentIntent.status]

summarizeCharge(charge) ==
    [id |-> charge.id,
     disputed |-> charge.disputed,
     outcome |-> IF charge.outcome = None
                 THEN None
                 ELSE Some([risk_level |-> charge.outcome[1].risk_level,
                            risk_score |-> charge.outcome[1].risk_score]),
     review_id |-> IF charge.review = None THEN None ELSE Some(charge.review[1].id)]

-----------------------------------------------------------------------------
(* The tool handlers, src/src/index.ts:186-327 and 453-655.  Each step     *)
(* operator is the synchronous code that runs up to the next await (where  *)
(* it issues the provider call) or up to the handler's return or throw.    *)

BaselineRecommendation ==
    [action |-> "monitor", reason |-> <<"Baseline recommendation before risk analysis.">>]

\* Plausible bug: the baseline recommendation is left in place.
NoChargeRecommendation_Baseline == BaselineRecommendation

NoChargeRecommendation ==
    [action |-> "manual_review",
     reason |-> <<"No charge details available. Review manually before taking action.">>]

IdleRequest ==
    [tool |-> "none",
     pc |-> "idle",
     input |-> None,
     paymentIntent |-> None,
     charge |-> None,
     result |-> [paymentIntent |-> None, charge |-> None, radar |-> None,
                 recommendation |-> BaselineRecommendation],
     earlyFraudWarnings |-> <<>>,
     reviews |-> <<>>,
     disputeData |-> <<>>,
     refundData |-> <<>>,
     calls |-> <<>>,
     inflight |-> 0,
     evaluations |-> 0,
     evaluated |-> None,
     status |-> "pending",
     response |-> None,
     isError |-> None,
     settled |-> None,
     error |-> None]

\* r with the provider call issued and the handler suspended on it
Call(r, api, target, params, awaiting) ==
    [r EXCEPT !.calls = Append(@, [api |-> api, target |-> target, params |-> params]),
              !.inflight = @ + 1,
              !.pc = awaiting]

\* r with the awaited provider call settled (resolved or rejected)
Settle(r) == [r EXCEPT !.inflight = @ - 1]

\* catch (error) { logger.error(...); throw error; }
Throw(r, message) ==
    [r EXCEPT !.pc = "done", !.status = "thrown", !.error = Some(message)]

\* return { content, structuredContent }
Return(r, structuredContent) ==
    [r EXCEPT !.pc = "done", !.status = "returned", !.response = Some(structuredContent)]

\* lines 616-641, 654 and 202-232
Finish(r) ==
    LET c == r.charge[1]
        radar == [early_fraud_warnings |-> [i \in DOMAIN r.earlyFraudWarnings |->
                                               summarizeEarlyFraudWarning(r.earlyFraudWarnings[i])],
                  reviews |-> r.reviews,
                  disputes |-> [i \in DOMAIN r.disputeData |-> summarizeDispute(r.disputeData[i])],
                  refunds |-> [i \in DOMAIN r.refundData |-> summarizeRefund(r.refundData[i])],
                  risk_level |-> IF c.outcome = None THEN None ELSE c.outcome[1].risk_level,
                  risk_score |-> IF c.outcome = None THEN None ELSE c.outcome[1].risk_score]
        done == [r EXCEPT !.result.radar = Some(radar),
                          !.result.recommendation =
                              deriveRecommendation(c, r.earlyFraudWarnings, r.disputeData),
                          !.evaluations = @ + 1,
                          !.evaluated = Some([charge |-> c,
                                              earlyFraudWarnings |-> r.earlyFraudWarnings,
                                              disputes |-> r.disputeData,
                                              calls |-> Len(r.calls),
                                              inflight |-> r.inflight])]
    IN  Return(done, done.result)

\* lines 604-614
RefundStep(r) ==
    LET c == r.charge[1]
    IN  IF c.refunds # None
        THEN Finish([r EXCEPT !.refundData = c.refunds[1]])
        ELSE IF r.input.include_events
        THEN Call(r, "refunds.list", c.id, None, "await_refunds")
        ELSE Finish([r EXCEPT !.refundData = <<>>])

\* Plausible bug: the dispute and refund lists are requested together.
DisputeStep_Parallel(r) ==
    IF r.input.include_events
    THEN Call(Call(r, "refunds.list", r.charge[1].id, None, "await_refunds"),
              "disputes.list", r.charge[1].id, None, "await_disputes")
    ELSE RefundStep([r EXCEPT !.disputeData = <<>>])

\* Plausible bug: include_events is not consulted for the dispute list.
DisputeStep_AlwaysLists(r) ==
    Call(r, "disputes.list", r.charge[1].id, None, "await_disputes")

\* lines 595-602
DisputeStep(r) ==
    IF r.input.include_events
    THEN Call(r, "disputes.list", r.charge[1].id, None, "await_disputes")
    ELSE RefundStep([r EXCEPT !.disputeData = <<>>])

\* lines 582-593
ReviewStep(r) ==
    LET c == r.charge[1]
    IN  IF c.review # None
        THEN IF ~c.review[1].expanded
             THEN Call(r, "reviews.retrieve", c.review[1].id, None, "await_review")
             ELSE DisputeStep([r EXCEPT !.reviews =
                                   Append(@, summarizeReview(c.review[1].object[1]))])
        ELSE DisputeStep(r)

\* lines 577-580 and 642-654
CollectRadar(r) ==
    IF r.charge # None
    THEN Call([r EXCEPT !.result.charge =
                   IF @ = None THEN Some(summarizeCharge(r.charge[1])) ELSE @],
              "radar.earlyFraudWarnings.list", r.charge[1].id, None,
              "await_early_fraud_warnings")
    ELSE LET forced == [r EXCEPT !.result.recommendation = NoChargeRecommendation]
         IN  Return(forced, forced.result)

\* lines 558-563
ListFallback(r) ==
    IF r.charge = None /\ r.paymentIntent # None
    THEN Call(r, "charges.list", r.paymentIntent[1].id, None, "await_charge_list")
    ELSE CollectRadar(r)

\* Plausible bug: charge_id is skipped once the payment intent gave a charge.
ResolveChargeId_KeepsLatestCharge(r) ==
    IF Truthy(r.input.charge_id) /\ r.charge = None
    THEN Call(r, "charges.retrieve", r.input.charge_id[1], None, "await_charge")
    ELSE ListFallback(r)

\* lines 517-527
ResolveChargeId(r) ==
    IF Truthy(r.input.charge_id)
    THEN Call(r, "charges.retrieve", r.input.charge_id[1], None, "await_charge")
    ELSE ListFallback(r)

\* lines 463-488
buildFraudInsight(r) ==
    IF Truthy(r.input.payment_intent_id)
    THEN Call(r, "paymentIntents.retrieve", r.input.payment_intent_id[1], None,
              "await_payment_intent")
    ELSE ResolveChargeId(r)

\* lines 192-200: the identifier guard of stripe_fraud_insight
FraudInsightHandler(a) ==
    LET input == ParseFraudInsight(a)
        r == [IdleRequest EXCEPT !.tool = "stripe_fraud_insight", !.input = input]
    IN  IF ~Truthy(input.payment_intent_id) /\ ~Truthy(input.charge_id)
        THEN Throw(r, "You must provide either payment_intent_id or charge_id to retrieve fraud insights.")
        ELSE buildFraudInsight(r)

InvokeFraudInsight ==
    /\ req.pc = "idle"
    /\ \E a \in FraudInsightArgs :
         /\ args' = Some(a)
         /\ req' = FraudInsightHandler(a)
    /\ UNCHANGED <<evalVars, serverVars, logVars>>

\* The call the handler is suspended on.
PendingCall == req.calls[Len(req.calls)]

\* lines 477-515: stripe.paymentIntents.retrieve resolves
PaymentIntentRetrieved ==
    /\ req.pc = "await_payment_intent"
    /\ \E p \in {x \in PaymentIntents : x.id = PendingCall.target} :
         LET r == [Settle(req) EXCEPT !.paymentIntent = Some(p),
                              !.result.paymentIntent = Some(summarizePaymentIntent(p))]
         IN  \/ \* latest_charge is null
                req' = ResolveChargeId(r)
             \/ \* latest_charge is an expanded charge object
                \E c \in Charges : req' = ResolveChargeId([r EXCEPT !.charge = Some(c)])
             \/ \* latest_charge is a charge id
                \E id \in ChargeIds :
                    req' = Call(r, "charges.retrieve", id, None, "await_latest_charge")
    /\ UNCHANGED <<args, evalVars, serverVars, logVars>>

\* lines 505-515: the latest charge, fetched by id, resolves
LatestChargeRetrieved ==
    /\ req.pc = "await_latest_charge"
    /\ \E c \in {x \in Charges : x.id = PendingCall.target} :
         req' = ResolveChargeId([Settle(req) EXCEPT !.charge = Some(c)])
    /\ UNCHANGED <<args, evalVars, serverVars, logVars>>

\* lines 519-556: stripe.charges.retrieve(input.charge_id) resolves
ChargeRetrieved ==
    /\ req.pc = "await_charge"
    /\ \E c \in {x \in Charges : x.id = PendingCall.target} :
         LET r == [Settle(req) EXCEPT !.charge = Some(c),
                              !.result.charge = Some(summarizeCharge(c))]
         IN  IF c.payment_intent # None /\ ~c.payment_intent[1].expanded
                /\ r.paymentIntent = None
             THEN req' = Call(r, "paymentIntents.retrieve", c.payment_intent[1].id, None,
                              "await_charge_payment_intent")
             ELSE IF c.payment_intent # None /\ c.payment_intent[1].expanded
             THEN LET p == c.payment_intent[1].object[1]
                  IN  req' = ListFallback(
                          [r EXCEPT !.paymentIntent = Some(p),
                                    !.result.paymentIntent = Some(summarizePaymentIntent(p))])
             ELSE req' = ListFallback(r)
    /\ UNCHANGED <<args, evalVars, serverVars, logVars>>

\* lines 542-548: the payment intent referenced by the charge resolves
ChargePaymentIntentRetrieved ==
    /\ req.pc = "await_charge_payment_intent"
    /\ \E p \in {x \in PaymentIntents : x.id = PendingCall.target} :
         req' = ListFallback([Settle(req) EXCEPT !.paymentIntent = Some(p),
                                         !.result.paymentIntent = Some(summarizePaymentIntent(p))])
    /\ UNCHANGED <<args, evalVars, serverVars, logVars>>

\* lines 559-575: stripe.charges.list resolves with at most one charge
ChargesListed ==
    /\ req.pc = "await_charge_list"
    /\ \/ req' = CollectRadar(Settle(req))
       \/ \E c \in Charges :
            req' = CollectRadar([Settle(req) EXCEPT !.charge = Some(c),
                                            !.result.charge = Some(summarizeCharge(c))])
    /\ UNCHANGED <<args, evalVars, serverVars, logVars>>

\* lines 579-593: stripe.radar.earlyFraudWarnings.list resolves
EarlyFraudWarningsListed ==
    /\ req.pc = "await_early_fraud_warnings"
    /\ \E w \in WarningLists :
         req' = ReviewStep([Settle(req) EXCEPT !.earlyFraudWarnings = w])
    /\ UNCHANGED <<args, evalVars, serverVars, logVars>>

\* lines 588-589: stripe.reviews.retrieve resolves
ReviewRetrieved ==
    /\ req.pc = "await_review"
    /\ \E v \in {x \in Reviews : x.id = PendingCall.target} :
         req' = DisputeStep([Settle(req) EXCEPT !.reviews = Append(@, summarizeReview(v))])
    /\ UNCHANGED <<args, evalVars, serverVars, logVars>>

\* lines 595-602: stripe.disputes.list resolves
DisputesListed ==
    /\ req.pc = "await_disputes"
    /\ \E d \in DisputeLists :
         req' = RefundStep([Settle(req) EXCEPT !.disputeData = d])
    /\ UNCHANGED <<args, evalVars, serverVars, logVars>>

\* lines 608-614: stripe.refunds.list resolves
RefundsListed ==
    /\ req.pc = "await_refunds"
    /\ \E l \in RefundLists :
         req' = Finish([Settle(req) EXCEPT !.refundData = l])
    /\ UNCHANGED <<args, evalVars, serverVars, logVars>>

\* Plausible bug: a reason is filled in when the caller gave none.
RefundParams_DefaultReason(input) ==
    [payment_intent |-> IF Truthy(input.payment_intent_id) THEN input.payment_intent_id ELSE None,
     charge |-> IF Truthy(input.charge_id) THEN input.charge_id ELSE None,
     amount |-> input.amount,
     reason |-> Some(Coalesce(input.reason, "requested_by_customer")),
     metadata |-> input.metadata]

\* lines 266-281
RefundParams(input) ==
    [payment_intent |-> IF Truthy(input.payment_intent_id) THEN input.payment_intent_id ELSE None,
     charge |-> IF Truthy(input.charge_id) THEN input.charge_id ELSE None,
     amount |-> input.amount,
     reason |-> input.reason,
     metadata |-> input.metadata]

\* lines 258-290: the identifier guard, the parameters, stripe.refunds.create
CreateRefundHandler(a) ==
    LET input == ParseRefund(a)
        r == [IdleRequest EXCEPT !.tool = "stripe_create_refund", !.input = input]
    IN  IF ~Truthy(input.payment_intent_id) /\ ~Truthy(input.charge_id)
        THEN Throw(r, "You must provide either payment_intent_id or charge_id to create a refund.")
        ELSE Call(r, "refunds.create", <<>>, Some(RefundParams(input)), "await_refund_create")

InvokeCreateRefund ==
    /\ req.pc = "idle"
    /\ \E a \in RefundArgs :
         /\ args' = Some(a)
         /\ req' = CreateRefundHandler(a)
    /\ UNCHANGED <<evalVars, serverVars, logVars>>

\* lines 290-318: stripe.refunds.create resolves
RefundCreated ==
    /\ req.pc = "await_refund_create"
    /\ \E f \in Refunds : req' = Return(Settle(req), [refund |-> f])
    /\ UNCHANGED <<args, evalVars, serverVars, logVars>>

AwaitStates ==
    {"await_payment_intent", "await_latest_charge", "await_charge",
     "await_charge_payment_intent", "await_charge_list", "await_early_fraud_warnings",
     "await_review", "await_disputes", "await_refunds", "await_refund_create"}

\* The awaited provider call rejects: nothing in buildFraudInsight catches,
\* and each of the two handlers' catch blocks logs and rethrows
\* (lines 233-239, 319-325).
ProviderCallFailed ==
    /\ req.pc \in AwaitStates
    /\ req' = Throw(Settle(req), "StripeError")
    /\ UNCHANGED <<args, evalVars, serverVars, logVars>>

-----------------------------------------------------------------------------
(* The Logger, src/unnamed/part_001 (logger.ts) *)

MaxLoggers == 6

LogLevels == {"debug", "info", "warn", "error"}

levelPriority == [debug |-> 10, info |-> 20, warn |-> 30, error |-> 40]

UpperCase ==
    <<"A", "B", "C", "D", "E", "F", "G", "H", "I", "J", "K", "L", "M",
      "N", "O", "P", "Q", "R", "S", "T", "U", "V", "W", "X", "Y", "Z">>

LowerCase ==
    <<"a", "b", "c", "d", "e", "f", "g", "h", "i", "j", "k", "l", "m",
      "n", "o", "p", "q", "r", "s", "t", "u", "v", "w", "x", "y", "z">>

LowerChar(c) ==
    IF \E i \in DOMAIN UpperCase : UpperCase[i] = c
    THEN LowerCase[CHOOSE i \in DOMAIN UpperCase : UpperCase[i] = c]
    ELSE c

\* key.toLowerCase()
ToLowerCase(str) == [i \in DOMAIN str |-> LowerChar(str[i])]

k_api_key == <<"a", "p", "i", "_", "k", "e", "y">>

k_apiKey == <<"a", "p", "i", "K", "e", "y">>

k_stripe_api_key == <<"s", "t", "r", "i", "p", "e", "_", "a", "p", "i", "_", "k", "e", "y">>

k_authorization == <<"a", "u", "t", "h", "o", "r", "i", "z", "a", "t", "i", "o", "n">>

k_token == <<"t", "o", "k", "e", "n">>

k_Token == <<"T", "o", "k", "e", "n">>

k_secret == <<"s", "e", "c", "r", "e", "t">>

k_note == <<"n", "o", "t", "e">>

\* line 84
secretKeys == {k_api_key, k_apiKey, k_stripe_api_key, k_authorization, k_token, k_secret}

Redacted == <<"[", "R", "E", "D", "A", "C", "T", "E", "D", "]">>

sk_live == <<"s", "k", "_", "l", "i", "v", "e">>

\* An entry of an object
Entry(key, value) == [key |-> key, value |-> value]

\* Context values: a string, an object (its entries in order) or an array
StringNode(text) == [kind |-> "string", text |-> text, entries |-> <<>>, items |-> <<>>]

ObjectNode(entries) == [kind |-> "object", text |-> <<>>, entries |-> entries, items |-> <<>>]

ArrayNode(items) == [kind |-> "array", text |-> <<>>, entries |-> <<>>, items |-> items]

ContextKeys == {k_api_key, k_apiKey, k_Token, k_note}

ContextLeaves == {StringNode(sk_live)}

ContextObjects == {ObjectNode(<<Entry(k, v)>>) : k \in {k_api_key, k_apiKey}, v \in ContextLeaves}

ContextValues ==
    ContextLeaves \cup ContextObjects \cup {ArrayNode(<<o>>) : o \in ContextObjects}

\* The context argument of a log call: absent, {} or an object with one entry
LogContexts ==
    {None, Some(ObjectNode(<<>>))}
        \cup {Some(ObjectNode(<<Entry(k, v)>>)) : k \in ContextKeys, v \in ContextValues}

\* The context argument of child()
ChildContexts ==
    {None} \cup {Some(ObjectNode(<<Entry(k_api_key, v)>>)) : v \in ContextLeaves}

\* lines 86-98
RECURSIVE sanitizeContext(_)
sanitizeContext(context) ==
    ObjectNode([i \in DOMAIN context.entries |->
        LET key == context.entries[i].key
            value == context.entries[i].value
        IN  IF ToLowerCase(key) \in secretKeys
            THEN Entry(key, StringNode(Redacted))
            ELSE IF value.kind = "object"
                 THEN Entry(key, sanitizeContext(value))
                 ELSE Entry(key, value)])

\* lines 18-21: new Logger(level = 'info', name); parent records which
\* logger's child() made it (0: none)
NewLogger(level, name, parent) ==
    [level |-> Coalesce(level, "info"), name |-> name, parent |-> parent]

\* Plausible bug: the child is made with the constructor's default level.
child_DefaultLevel(logger, index, childName) ==
    NewLogger(None,
              IF Truthy(logger.name) THEN Some(logger.name[1] \o <<childName>>)
                                     ELSE Some(<<childName>>),
              index)

\* line 24: a name is the sequence of its ':'-separated segments
child(logger, index, childName) ==
    NewLogger(Some(logger.level),
              IF Truthy(logger.name) THEN Some(logger.name[1] \o <<childName>>)
                                     ELSE Some(<<childName>>),
              index)

\* lines 47-81: the payload written to the console, None when filtered out
log(logger, level, message, context) ==
    IF levelPriority[level] < levelPriority[logger.level]
    THEN None
    ELSE Some([level |-> level,
               timestamp |-> "now",
               message |-> message,
               logger |-> IF Truthy(logger.name) THEN logger.name ELSE None,
               context |-> IF context # None /\ Len(context[1].entries) > 0
                           THEN Some(sanitizeContext(context[1]))
                           ELSE None])

LogCall(index, level, message, context) ==
    [logger |-> index, level |-> level, message |-> message, context |-> context]

-----------------------------------------------------------------------------
(* createServer and registerStripeTools, src/src/index.ts:6-72 and 162-451 *)

sk_test == <<"s", "k">>

acct_1 == <<"a", "c", "c", "t", "_", "1">>

acct_2 == <<"a", "c", "c", "t", "_", "2">>

\* The configuration as given to the server, before configSchema is applied
Configs ==
    [stripe_api_key : {sk_test},
     stripe_api_version : {None},
     default_stripe_account : {None, Some(<<>>), Some(acct_1)},
     log_level : {None, Some("debug"), Some("error")}]

\* configSchema: log_level defaults to 'info'
ParseConfig(c) == [c EXCEPT !.log_level = Coalesce(c.log_level, "info")]

NoServer ==
    [created |-> FALSE,
     given |-> None,
     config |-> None,
     defaultStripeAccount |-> None,
     tools |-> <<>>]

\* server.registerTool(name, ...)
registerTool(srv, name) == [srv EXCEPT !.tools = Append(@, name)]

\* lines 162-451: the three server.registerTool calls, in order
registerStripeTools(srv) ==
    registerTool(
        registerTool(
            registerTool(srv, "stripe_fraud_insight"),
            "stripe_create_refund"),
        "stripe_raw_request")

\* lines 28-72: defaultStripeAccount is passed on only when it is truthy
createServer(c) ==
    LET config == ParseConfig(c)
    IN  registerStripeTools(
            [NoServer EXCEPT !.created = TRUE,
                             !.given = Some(c),
                             !.config = Some(config),
                             !.defaultStripeAccount =
                                 IF Truthy(config.default_stripe_account)
                                 THEN config.default_stripe_account
                                 ELSE None])

\* The configuration with every optional setting left out
BaseConfig ==
    [stripe_api_key |-> sk_test,
     stripe_api_version |-> None,
     default_stripe_account |-> None,
     log_level |-> None]

NoLogging ==
    /\ loggers = <<>>
    /\ logCall = None
    /\ emitted = None

\* lines 50 and 173-177: the server's logger, its 'tools' child and that
\* child's three children, one per tool
createLoggers(c) ==
    LET logger == NewLogger(Some(ParseConfig(c).log_level), Some(<<"stripe-mcp">>), 0)
        toolsLogger == child(logger, 1, "tools")
    IN  <<logger,
          toolsLogger,
          child(toolsLogger, 2, "stripe_fraud_insight"),
          child(toolsLogger, 2, "stripe_create_refund"),
          child(toolsLogger, 2, "stripe_raw_request")>>

\* The state createServer(c) leaves behind; its last log call is
\* toolsLogger.info('Registering Stripe tools') (line 174)
Constructed(c, srv, lgs, call, out) ==
    /\ srv = createServer(c)
    /\ lgs = createLoggers(c)
    /\ call = Some(LogCall(2, "info", "Registering Stripe tools", None))
    /\ out = log(createLoggers(c)[2], "info", "Registering Stripe tools", None)

-----------------------------------------------------------------------------
(* The stripe_raw_request tool, src/src/index.ts:126-160 and 329-450 *)

PathPlain == <<"/", "v", "1", "/", "c">>

PathWithQuery == PathPlain \o <<"?", "a", "=", "1">>

PathPadded == <<" ">> \o PathPlain \o <<" ">>

RawPaths == {PathPlain, PathWithQuery, PathPadded}

\* z.union([z.string(), z.number(), z.boolean()])
StringValue(s) == [type |-> "string", string |-> s, number |-> 0, boolean |-> FALSE]

NumberValue(n) == [type |-> "number", string |-> <<>>, number |-> n, boolean |-> FALSE]

BooleanValue(b) == [type |-> "boolean", string |-> <<>>, number |-> 0, boolean |-> b]

LimitEntry == Entry(<<"l", "i", "m">>, NumberValue(25))

TextEntry == Entry(<<"q">>, StringValue(<<"a", " ", "b">>))

FlagEntry == Entry(<<"o", "k">>, BooleanValue(TRUE))

\* An object is the sequence of its entries in insertion order; {} is <<>>.
RawQueries == {None, Some(<<>>), Some(<<LimitEntry>>), Some(<<TextEntry, FlagEntry>>)}

RawPayloads == {None, Some(<<>>), Some(<<TextEntry>>)}

key_1 == <<"k", "1">>

version_1 == <<"2", "0", "2", "4">>

\* The arguments of stripe_raw_request as sent by the client
RawRequestArgs ==
    [method : {"GET", "POST", "DELETE"},
     path : RawPaths,
     query : RawQueries,
     payload : RawPayloads,
     idempotency_key : {None, Some(<<>>), Some(key_1)},
     stripe_account : {None, Some(<<>>), Some(acct_2)},
     api_version : {None, Some(<<>>), Some(version_1)}]

\* rawRequestShape: path is trimmed
ParseRawRequest(a) == [a EXCEPT !.path = Trim(@)]

Digits == <<"0", "1", "2", "3", "4", "5", "6", "7", "8", "9">>

RECURSIVE DecimalString(_)
DecimalString(n) ==
    IF n < 10
    THEN <<Digits[n + 1]>>
    ELSE DecimalString(n \div 10) \o <<Digits[(n % 10) + 1]>>

\* String(value)
StringOf(value) ==
    CASE value.type = "string" -> value.string
      [] value.type = "number" -> DecimalString(value.number)
      [] value.type = "boolean" ->
            IF value.boolean THEN <<"t", "r", "u", "e">> ELSE <<"f", "a", "l", "s", "e">>

\* URLSearchParams serialises with the form-urlencoded byte encoding
EncodeChar(c) ==
    CASE c = " " -> <<"+">>
      [] c = "&" -> <<"%", "2", "6">>
      [] c = "=" -> <<"%", "3", "D">>
      [] c = "?" -> <<"%", "3", "F">>
      [] c = "/" -> <<"%", "2", "F">>
      [] OTHER -> <<c>>

RECURSIVE FormEncode(_)
FormEncode(s) ==
    IF s = <<>> THEN <<>> ELSE EncodeChar(Head(s)) \o FormEncode(Tail(s))

\* search.append(key, String(value)) for each entry; search.toString()
RECURSIVE SearchString(_)
SearchString(entries) ==
    IF entries = <<>>
    THEN <<>>
    ELSE FormEncode(Head(entries).key) \o <<"=">> \o FormEncode(StringOf(Head(entries).value))
            \o (IF Tail(entries) = <<>> THEN <<>> ELSE <<"&">> \o SearchString(Tail(entries)))

\* path.includes(c)
Includes(s, c) == \E i \in DOMAIN s : s[i] = c

\* Plausible bug: the query is always introduced by '?'.
Separator_AlwaysQuestionMark(path) == "?"

\* line 356
Separator(path) == IF Includes(path, "?") THEN "&" ELSE "?"

\* lines 349-358
RawRequestPath(input) ==
    IF input.query # None /\ input.method # "POST"
    THEN input.path \o <<Separator(input.path)>> \o SearchString(input.query[1])
    ELSE input.path

\* lines 360-361
RawRequestParams(input) ==
    IF input.method = "POST" THEN Some(Coalesce(input.payload, <<>>)) ELSE None

\* Plausible bug: the configured default wins over the request's account.
RawRequestOptions_DefaultFirst(input, defaultStripeAccount) ==
    LET stripeAccount == IF defaultStripeAccount # None
                         THEN defaultStripeAccount
                         ELSE input.stripe_account
    IN  [idempotencyKey |-> IF Truthy(input.idempotency_key) THEN input.idempotency_key ELSE None,
         stripeAccount |-> IF Truthy(stripeAccount) THEN stripeAccount ELSE None,
         apiVersion |-> IF Truthy(input.api_version) THEN input.api_version ELSE None]

\* lines 363-364 and 372-378
RawRequestOptions(input, defaultStripeAccount) ==
    LET stripeAccount == IF input.stripe_account # None
                         THEN input.stripe_account
                         ELSE defaultStripeAccount
    IN  [idempotencyKey |-> IF Truthy(input.idempotency_key) THEN input.idempotency_key ELSE None,
         stripeAccount |-> IF Truthy(stripeAccount) THEN stripeAccount ELSE None,
         apiVersion |-> IF Truthy(input.api_version) THEN input.api_version ELSE None]

\* lines 337-378: up to await stripe.rawRequest(method, path, params, options)
RawRequestHandler(a, defaultStripeAccount) ==
    LET input == ParseRawRequest(a)
        r == [IdleRequest EXCEPT !.tool = "stripe_raw_request", !.input = input]
    IN  Call(r, "rawRequest", RawRequestPath(input),
             Some([method |-> input.method,
                   params |-> RawRequestParams(input),
                   options |-> RawRequestOptions(input, defaultStripeAccount)]),
             "await_raw_request")

\* What stripe.rawRequest resolves with
RawResponses == [statusCode : {200}, requestId : {"req_1"}, data : {"customer", "list"}]

\* What stripe.rawRequest rejects with: a Stripe.errors.StripeError or not
StripeErrors ==
    [stripe : {TRUE},
     statusCode : {None, Some(402)},
     type : {"StripeCardError"},
     code : {None, Some("card_declined")},
     message : {"Your card was declined."}]

OtherErrors ==
    [stripe : {FALSE},
     statusCode : {None},
     type : {"TypeError"},
     code : {None},
     message : {"fetch failed"}]

\* lines 380-407
RawRequestReturn(r, response) ==
    Return(r, [status |-> Some(response.statusCode),
               request_id |-> response.requestId,
               data |-> response.data])

\* Plausible bug: every failure is rethrown.
RawRequestCatch_Rethrows(r, error) == Throw(r, error.message)

\* lines 408-447
RawRequestCatch(r, error) ==
    IF error.stripe
    THEN [Return(r, [status |-> error.statusCode,
                     type |-> error.type,
                     code |-> error.code,
                     message |-> error.message])
             EXCEPT !.isError = Some(TRUE)]
    ELSE Throw(r, error.message)

CreateServer ==
    /\ ~server.created
    /\ \E c \in Configs : Constructed(c, server', loggers', logCall', emitted')
    /\ UNCHANGED <<handlerVars, evalVars>>

\* logger.child(childName, context): with a context the child logs its
\* creation at debug level (lines 23-29)
CreateChild ==
    /\ Len(loggers) < MaxLoggers
    /\ \E p \in DOMAIN loggers, context \in ChildContexts :
         LET made == child(loggers[p], p, "worker")
         IN  /\ loggers' = Append(loggers, made)
             /\ IF context # None
                THEN /\ logCall' = Some(LogCall(Len(loggers) + 1, "debug",
                                                "Logger child created", context))
                     /\ emitted' = log(made, "debug", "Logger child created", context)
                ELSE UNCHANGED <<logCall, emitted>>
    /\ UNCHANGED <<handlerVars, evalVars, serverVars>>

\* logger.debug / info / warn / error (message, context) (lines 31-45).
\* log() keeps no state, so one such call is followed up at a time.
LogMessage ==
    /\ logCall # None => logCall[1].message # "message"
    /\ \E l \in DOMAIN loggers, level \in LogLevels, context \in LogContexts :
         /\ logCall' = Some(LogCall(l, level, "message", context))
         /\ emitted' = log(loggers[l], level, "message", context)
    /\ UNCHANGED <<loggers, handlerVars, evalVars, serverVars>>

InvokeRawRequest ==
    /\ server.created
    /\ Includes(server.tools, "stripe_raw_request")
    /\ req.pc = "idle"
    /\ \E a \in RawRequestArgs :
         /\ args' = Some(a)
         /\ req' = RawRequestHandler(a, server.defaultStripeAccount)
    /\ UNCHANGED <<evalVars, serverVars, logVars>>

RawRequestResolved ==
    /\ req.pc = "await_raw_request"
    /\ \E response \in RawResponses :
         req' = RawRequestReturn(
                    [Settle(req) EXCEPT !.settled = Some([resolved |-> TRUE, value |-> response])],
                    response)
    /\ UNCHANGED <<args, evalVars, serverVars, logVars>>

RawRequestRejected ==
    /\ req.pc = "await_raw_request"
    /\ \E error \in StripeErrors \cup OtherErrors :
         req' = RawRequestCatch(
                    [Settle(req) EXCEPT !.settled = Some([resolved |-> FALSE, value |-> error])],
                    error)
    /\ UNCHANGED <<args, evalVars, serverVars, logVars>>

-----------------------------------------------------------------------------

Init ==
    /\ args = None
    /\ req = IdleRequest
    /\ evalArgs = <<>>
    /\ evalResult = <<>>
    /\ invocations = 0
    /\ Constructed(BaseConfig, server, loggers, logCall, emitted)

Next ==
    \/ InvokeFraudInsight
    \/ PaymentIntentRetrieved
    \/ LatestChargeRetrieved
    \/ ChargeRetrieved
    \/ ChargePaymentIntentRetrieved
    \/ ChargesListed
    \/ EarlyFraudWarningsListed
    \/ ReviewRetrieved
    \/ DisputesListed
    \/ RefundsListed
    \/ InvokeCreateRefund
    \/ RefundCreated
    \/ ProviderCallFailed

Spec == Init /\ [][Next]_vars

\* The server from its construction on, serving stripe_raw_request
InitServer ==
    /\ args = None
    /\ req = IdleRequest
    /\ evalArgs = <<>>
    /\ evalResult = <<>>
    /\ invocations = 0
    /\ server = NoServer
    /\ NoLogging

NextServer ==
    \/ CreateServer
    \/ InvokeRawRequest
    \/ RawRequestResolved
    \/ RawRequestRejected

SpecServer == InitServer /\ [][NextServer]_vars

\* The server's loggers: construction, child loggers and log calls
NextLog ==
    \/ CreateServer
    \/ CreateChild
    \/ LogMessage

SpecLog == InitServer /\ [][NextLog]_vars

-----------------------------------------------------------------------------
(* Evaluator harness: two invocations of deriveRecommendation whose        *)
(* (outcome, disputes, warnings) agree, with invocations made by other     *)
(* requests in between.                                                    *)

EvalSlots == {1, 2}

EvalCharges == [id : {"ch_1"}, disputed : BOOLEAN, outcome : Outcomes]

EvalInputs ==
    [charge : EvalCharges, earlyFraudWarnings : WarningLists, disputes : DisputeLists]

\* The three values the evaluator is specified to depend on.
EvaluatorKey(a) ==
    <<a.charge.outcome, a.disputes, a.earlyFraudWarnings>>

OtherInputs ==
    {a \in EvalInputs : a.charge.outcome = None /\ a.earlyFraudWarnings = <<>>}

InitEval ==
    /\ \E a \in EvalInputs :
         \E c \in {x \in EvalCharges : x.outcome = a.charge.outcome} :
            evalArgs = <<a, [a EXCEPT !.charge = c]>>
    /\ evalResult = <<None, None>>
    /\ invocations = 0
    /\ args = None
    /\ req = IdleRequest
    /\ Constructed(BaseConfig, server, loggers, logCall, emitted)

Evaluate(s) ==
    /\ evalResult[s] = None
    /\ evalResult' = [evalResult EXCEPT ![s] =
            Some(deriveRecommendation(evalArgs[s].charge,
                                      evalArgs[s].earlyFraudWarnings,
                                      evalArgs[s].disputes))]
    /\ invocations' = invocations + 1
    /\ UNCHANGED <<evalArgs, handlerVars, serverVars, logVars>>

EvaluateFirst == Evaluate(1)

EvaluateSecond == Evaluate(2)

\* Another request's invocation: it shares nothing with the two slots.
EvaluateOther ==
    /\ invocations < Cardinality({s \in EvalSlots : evalResult[s] # None}) + MaxOtherInvocations
    /\ \E a \in OtherInputs :
         deriveRecommendation(a.charge, a.earlyFraudWarnings, a.disputes).action
            \in {"refund", "manual_review", "monitor"}
    /\ invocations' = invocations + 1
    /\ UNCHANGED <<evalArgs, evalResult, handlerVars, serverVars, logVars>>

NextEval ==
    \/ EvaluateFirst
    \/ EvaluateSecond
    \/ EvaluateOther

SpecEval == InitEval /\ [][NextEval]_vars

-----------------------------------------------------------------------------
(* Properties of deriveRecommendation, checked under SpecEval.  They read  *)
(* the invocation's arguments directly, not through the evaluator's own    *)
(* helper operators.                                                       *)

Invoked(s) == evalResult[s] # None

Returned(s) == evalResult[s][1]

ArgNoDisputes(s) == evalArgs[s].disputes = <<>>

ArgActionable(s) ==
    \E i \in DOMAIN evalArgs[s].earlyFraudWarnings :
        evalArgs[s].earlyFraudWarnings[i].actionable = TRUE

\* risk_level as given: None when the outcome or the field is absent
ArgLevel(s) ==
    IF evalArgs[s].charge.outcome = None
    THEN None
    ELSE evalArgs[s].charge.outcome[1].risk_level

\* TRUE when a risk_score was given at all
ArgHasScore(s) ==
    /\ evalArgs[s].charge.outcome # None
    /\ evalArgs[s].charge.outcome[1].risk_score # None

\* the given risk_score, read as 0 when absent
ArgScore(s) ==
    IF ArgHasScore(s) THEN evalArgs[s].charge.outcome[1].risk_score[1] ELSE 0

\* C1: whenever the dispute list is non-empty the returned action is
\* 'refund', whatever the risk level, risk score (or absent outcome) and
\* the early-fraud-warning list are.
C1_DisputeMeansRefund ==
    \A s \in EvalSlots :
        (Invoked(s) /\ Len(evalArgs[s].disputes) > 0) => Returned(s).action = "refund"

\* C1 witness: a disputed charge with no outcome and no warnings was evaluated.
C1_Witness ==
    /\ Invoked(1)
    /\ Len(evalArgs[1].disputes) > 0
    /\ evalArgs[1].charge.outcome = None
    /\ evalArgs[1].earlyFraudWarnings = <<>>
    /\ Returned(1).action = "refund"

\* C2: with an empty dispute list and at least one actionable warning the
\* action is 'refund' whatever the risk level and score; and the
\* actionable-warning rule never produces the result when no warning is
\* actionable.
C2_ActionableWarningMeansRefund ==
    \A s \in EvalSlots :
        Invoked(s) =>
            /\ (ArgNoDisputes(s) /\ ArgActionable(s)) => Returned(s).action = "refund"
            /\ Returned(s).reason = WarningReason => ArgActionable(s)

\* C2 witness: no dispute, a non-actionable warning followed by an
\* actionable one, lowest risk, evaluated to refund.
C2_Witness ==
    /\ Invoked(1)
    /\ ArgNoDisputes(1)
    /\ Len(evalArgs[1].earlyFraudWarnings) = 2
    /\ ~evalArgs[1].earlyFraudWarnings[1].actionable
    /\ evalArgs[1].earlyFraudWarnings[2].actionable
    /\ ArgLevel(1) = Some("normal")
    /\ ArgScore(1) = 0
    /\ Returned(1).action = "refund"

\* C3: with no disputes and no actionable warning, the action is 'refund'
\* whenever risk_level is 'highest' or risk_score >= 75; the boundary is
\* inclusive: score 75 with level unset gives 'refund', score 74 with level
\* unset does not.
C3_HighRiskMeansRefund ==
    \A s \in EvalSlots :
        (Invoked(s) /\ ArgNoDisputes(s) /\ ~ArgActionable(s)) =>
            /\ (ArgLevel(s) = Some("highest") \/ (ArgHasScore(s) /\ ArgScore(s) >= 75))
                    => Returned(s).action = "refund"
            /\ (ArgLevel(s) = None /\ ArgHasScore(s) /\ ArgScore(s) = 74)
                    => Returned(s).action # "refund"

\* C3 witness: score exactly 75, level unset, nothing else, evaluated to refund.
C3_Witness ==
    /\ Invoked(1)
    /\ ArgNoDisputes(1)
    /\ ~ArgActionable(1)
    /\ ArgLevel(1) = None
    /\ ArgHasScore(1)
    /\ ArgScore(1) = 75
    /\ Returned(1).action = "refund"

\* C4: with no disputes, no actionable warning, risk_level not 'highest'
\* and risk_score < 75, the action is 'manual_review' exactly when
\* risk_level is 'elevated' or risk_score >= 50; with level unset, scores 74
\* and 50 give 'manual_review' and score 49 gives 'monitor'.
C4_ElevatedRiskMeansManualReview ==
    \A s \in EvalSlots :
        (/\ Invoked(s)
         /\ ArgNoDisputes(s)
         /\ ~ArgActionable(s)
         /\ ArgLevel(s) # Some("highest")
         /\ ArgScore(s) < 75) =>
            /\ Returned(s).action = "manual_review"
                    <=> (ArgLevel(s) = Some("elevated") \/ ArgScore(s) >= 50)
            /\ (ArgLevel(s) = None /\ ArgScore(s) \in {50, 74})
                    => Returned(s).action = "manual_review"
            /\ (ArgLevel(s) = None /\ ArgHasScore(s) /\ ArgScore(s) = 49)
                    => Returned(s).action = "monitor"

\* C4 witness: level 'elevated' with a score below 50 was evaluated to
\* manual_review.
C4_Witness ==
    /\ Invoked(1)
    /\ ArgNoDisputes(1)
    /\ ~ArgActionable(1)
    /\ ArgLevel(1) = Some("elevated")
    /\ ArgHasScore(1)
    /\ ArgScore(1) = 49
    /\ Returned(1).action = "manual_review"

\* C5: fully empty inputs (no disputes, no warnings, no outcome) give
\* 'monitor' with the default reason; an absent risk_score is treated as 0
\* and an absent risk_level matches neither 'highest' nor 'elevated', so
\* absent fields alone never trigger the refund or manual_review rules.
C5_AbsentFieldsDefault ==
    \A s \in EvalSlots :
        (Invoked(s) /\ ArgNoDisputes(s) /\ ~ArgActionable(s)) =>
            /\ (evalArgs[s].charge.outcome = None /\ evalArgs[s].earlyFraudWarnings = <<>>)
                    => Returned(s) = [action |-> "monitor", reason |-> MonitorReason]
            /\ ~ArgHasScore(s) =>
                    /\ Returned(s).action = "refund" <=> ArgLevel(s) = Some("highest")
                    /\ Returned(s).action = "manual_review" <=> ArgLevel(s) = Some("elevated")
                    /\ ArgLevel(s) = Some("highest") =>
                            Returned(s).reason =
                                <<"High risk detected (level: ", "highest", ", score: ", "0", ").">>
            /\ ArgLevel(s) = None =>
                    /\ Returned(s).action = "refund" <=> ArgScore(s) >= 75
                    /\ Returned(s).action = "manual_review" <=> ArgScore(s) \in 50..74

\* C5 witness: the fully empty input was evaluated to monitor.
C5_Witness ==
    /\ Invoked(1)
    /\ evalArgs[1].disputes = <<>>
    /\ evalArgs[1].earlyFraudWarnings = <<>>
    /\ evalArgs[1].charge.outcome = None
    /\ Returned(1).action = "monitor"

\* The five rules as a table: rule i's condition and rule i's output.
RuleMatches(i, s) ==
    CASE i = 1 -> Len(evalArgs[s].disputes) > 0
      [] i = 2 -> ArgActionable(s)
      [] i = 3 -> ArgLevel(s) = Some("highest") \/ ArgScore(s) >= 75
      [] i = 4 -> ArgLevel(s) = Some("elevated") \/ ArgScore(s) >= 50
      [] OTHER -> TRUE

RuleOutput(i, s) ==
    CASE i = 1 -> [action |-> "refund", reason |-> DisputeReason]
      [] i = 2 -> [action |-> "refund", reason |-> WarningReason]
      [] i = 3 -> [action |-> "refund",
                   reason |-> <<"High risk detected (level: ",
                                IF ArgLevel(s) = None THEN "n/a" ELSE ArgLevel(s)[1],
                                ", score: ", ToString(ArgScore(s)), ").">>]
      [] i = 4 -> [action |-> "manual_review", reason |-> ElevatedReason]
      [] OTHER -> [action |-> "monitor", reason |-> MonitorReason]

FirstMatchingRule(s) ==
    CHOOSE i \in 1..5 : RuleMatches(i, s) /\ \A j \in 1..(i - 1) : ~RuleMatches(j, s)

\* C6: the rules are evaluated in strict priority order (dispute >
\* actionable warning > high risk > elevated risk > default): the action and
\* the reason are those of the first matching rule, and exactly one rule's
\* output is the result.
C6_FirstMatchingRuleWins ==
    \A s \in EvalSlots :
        Invoked(s) =>
            /\ Returned(s) = RuleOutput(FirstMatchingRule(s), s)
            /\ Cardinality({i \in 1..5 : RuleOutput(i, s) = Returned(s)}) = 1

\* C6 witness: the warning rule and the high-risk rule both match (no
\* dispute) and the warning rule's output was returned.
C6_Witness ==
    /\ Invoked(1)
    /\ ~RuleMatches(1, 1)
    /\ RuleMatches(2, 1)
    /\ RuleMatches(3, 1)
    /\ RuleMatches(4, 1)
    /\ Returned(1) = RuleOutput(2, 1)

\* C7: the result is a function of (charge outcome, dispute list, warning
\* list) alone: two invocations that agree on these three return the same
\* action and reason, whatever the charges' other fields are and however
\* many invocations were made before or in between.
C7_DependsOnlyOnSpecifiedInputs ==
    \A s, t \in EvalSlots :
        (Invoked(s) /\ Invoked(t) /\ EvaluatorKey(evalArgs[s]) = EvaluatorKey(evalArgs[t]))
            => Returned(s) = Returned(t)

\* C7 witness: two invocations on charges that differ in another field,
\* with another request's invocation also made, returned the same result.
C7_Witness ==
    /\ Invoked(1)
    /\ Invoked(2)
    /\ invocations = 3
    /\ evalArgs[1].charge.disputed # evalArgs[2].charge.disputed
    /\ EvaluatorKey(evalArgs[1]) = EvaluatorKey(evalArgs[2])
    /\ Returned(1) = Returned(2)

-----------------------------------------------------------------------------
(* Properties of the tool handlers, checked under Spec *)

\* An identifier argument that is absent, empty or made of spaces only
Blank(opt) == opt = None \/ \A i \in DOMAIN opt[1] : opt[1][i] = " "

IsFraudInsight == req.tool = "stripe_fraud_insight"

IsCreateRefund == req.tool = "stripe_create_refund"

ForcedManualReview ==
    [action |-> "manual_review",
     reason |-> <<"No charge details available. Review manually before taking action.">>]

\* C8 as claimed: whenever a request that started its lookups ends with no
\* charge resolved, an upstream lookup failure included, the handler returns
\* a result with the forced 'manual_review' recommendation and the
\* evaluator was not invoked.
C8_Original ==
    (IsFraudInsight /\ req.pc = "done" /\ Len(req.calls) > 0 /\ req.charge = None) =>
        /\ req.status = "returned"
        /\ req.response # None
        /\ req.response[1].recommendation = ForcedManualReview
        /\ req.evaluations = 0

\* C8 amended: when the lookups complete without resolving a charge, the
\* handler returns a result whose recommendation is the forced
\* 'manual_review' (no radar data) and the evaluator is not invoked; when an
\* upstream lookup fails the handler throws instead: no result is returned
\* and the evaluator is not invoked either.
C8_NoChargeFallback ==
    (IsFraudInsight /\ req.pc = "done") =>
        /\ (req.status = "returned" /\ req.charge = None) =>
                /\ req.response # None
                /\ req.response[1].recommendation = ForcedManualReview
                /\ req.response[1].radar = None
                /\ req.evaluations = 0
        /\ req.status = "thrown" =>
                /\ req.response = None
                /\ req.evaluations = 0
        /\ req.charge = None => req.evaluations = 0

\* C8 witness: the payment intent was retrieved, its charge listing came
\* back empty, and the request returned the forced recommendation.
C8_Witness ==
    /\ IsFraudInsight
    /\ req.status = "returned"
    /\ req.charge = None
    /\ req.paymentIntent # None
    /\ Len(req.calls) = 2
    /\ req.calls[2].api = "charges.list"
    /\ req.response[1].recommendation.action = "manual_review"

\* C9: a stripe_fraud_insight invocation whose payment_intent_id and
\* charge_id are both absent or empty after trimming fails with an error,
\* returns no recommendation and issues no provider call.
C9_FraudInsightRequiresIdentifier ==
    (IsFraudInsight /\ Blank(args[1].payment_intent_id) /\ Blank(args[1].charge_id)) =>
        /\ req.pc = "done"
        /\ req.status = "thrown"
        /\ req.error # None
        /\ req.response = None
        /\ req.calls = <<>>

\* C9 witness: both identifiers were given as spaces only and the
\* invocation failed.
C9_Witness ==
    /\ IsFraudInsight
    /\ args[1].payment_intent_id = Some(<<" ">>)
    /\ args[1].charge_id = Some(<<" ", " ">>)
    /\ req.status = "thrown"
    /\ req.calls = <<>>

\* C10: a stripe_create_refund invocation with neither identifier (absent
\* or empty after trimming) fails and never calls stripe.refunds.create;
\* every stripe.refunds.create call carries at least one of payment_intent
\* and charge, and carries amount, reason and metadata only when the caller
\* supplied them.
C10_RefundTargetsChargeOrPaymentIntent ==
    IsCreateRefund =>
        /\ (Blank(args[1].payment_intent_id) /\ Blank(args[1].charge_id)) =>
                /\ req.status = "thrown"
                /\ req.response = None
                /\ req.calls = <<>>
        /\ \A i \in DOMAIN req.calls :
                req.calls[i].api = "refunds.create" =>
                    LET params == req.calls[i].params[1]
                    IN  /\ \/ params.payment_intent # None /\ params.payment_intent[1] # <<>>
                           \/ params.charge # None /\ params.charge[1] # <<>>
                        /\ params.amount # None => args[1].amount # None
                        /\ params.reason # None => args[1].reason # None
                        /\ params.metadata # None => args[1].metadata # None

\* C10 witness: stripe.refunds.create was called for a charge alone, the
\* caller having given no amount, reason or metadata.
C10_Witness ==
    /\ IsCreateRefund
    /\ Len(req.calls) = 1
    /\ req.calls[1].api = "refunds.create"
    /\ req.calls[1].params[1].charge = Some(ch_1)
    /\ req.calls[1].params[1].payment_intent = None
    /\ req.calls[1].params[1].amount = None
    /\ req.calls[1].params[1].reason = None
    /\ req.calls[1].params[1].metadata = None
    /\ args[1].charge_id = Some(ch_1 \o <<" ">>)

-----------------------------------------------------------------------------
(* Properties of the fraud-insight orchestration, checked under Spec *)

CallsOf(api) == {i \in DOMAIN req.calls : req.calls[i].api = api}

ReturnedWithCharge ==
    IsFraudInsight /\ req.status = "returned" /\ req.charge # None

C18_WithoutEventsNoDisputeSignal ==
    (IsFraudInsight /\ req.input.include_events = FALSE) =>
        /\ CallsOf("disputes.list") = {}
        /\ CallsOf("refunds.list") = {}
        /\ ReturnedWithCharge =>
                /\ req.evaluated[1].disputes = <<>>
                /\ req.response[1].recommendation.reason # DisputeReason
                /\ req.response[1].recommendation =
                        deriveRecommendation(
                            [outcome |-> req.charge[1].outcome],
                            req.earlyFraudWarnings, <<>>)
                /\ CallsOf("radar.earlyFraudWarnings.list") # {}
                /\ req.response[1].radar[1].disputes = <<>>
                /\ req.response[1].radar[1].refunds =
                        IF req.charge[1].refunds = None
                        THEN <<>>
                        ELSE [i \in DOMAIN req.charge[1].refunds[1] |->
                                 [id |-> req.charge[1].refunds[1][i].id,
                                  amount |-> req.charge[1].refunds[1][i].amount]]

\* C18 witness: include_events = false, the charge is flagged as disputed and
\* carries a refund; the request returned 'monitor' and reports the refund.
C18_Witness ==
    /\ ReturnedWithCharge
    /\ args[1].include_events = Some(FALSE)
    /\ req.charge[1].disputed
    /\ req.charge[1].refunds # None
    /\ Len(req.response[1].radar[1].refunds) = 1
    /\ req.response[1].recommendation.action = "monitor"

\* C19: whenever the result contains radar data, the result's charge
\* summary, the charge id of every warning, dispute and refund lookup and the
\* charge passed to deriveRecommendation are one and the same charge; when
\* both payment_intent_id and charge_id are supplied that charge is the one
\* named by charge_id, not the payment intent's latest charge.
C19_OneChargeThroughout ==
    (IsFraudInsight /\ req.result.radar # None) =>
        /\ req.evaluated # None
        /\ req.charge = Some(req.evaluated[1].charge)
        /\ req.result.charge = Some(summarizeCharge(req.evaluated[1].charge))
        /\ req.result.radar[1].risk_level = RiskLevelOf(req.evaluated[1].charge)
        /\ \A i \in CallsOf("radar.earlyFraudWarnings.list") \cup CallsOf("disputes.list")
                    \cup CallsOf("refunds.list") :
                req.calls[i].target = req.evaluated[1].charge.id
        /\ (Truthy(req.input.payment_intent_id) /\ Truthy(req.input.charge_id)) =>
                req.evaluated[1].charge.id = req.input.charge_id[1]

\* C19 witness: both identifiers were supplied, the payment intent's latest
\* charge was ch_2, and the result is about ch_1, the charge named by
\* charge_id.
C19_Witness ==
    /\ IsFraudInsight
    /\ req.result.radar # None
    /\ Truthy(req.input.payment_intent_id)
    /\ req.input.charge_id = Some(ch_1)
    /\ req.calls[2].api = "charges.retrieve"
    /\ req.calls[2].target = ch_2
    /\ req.result.charge[1].id = ch_1
    /\ req.evaluated[1].charge.id = ch_1

-----------------------------------------------------------------------------
(* Properties of stripe_raw_request and of createServer, checked under     *)
(* SpecServer                                                              *)

IsRawRequest == req.tool = "stripe_raw_request"

\* The one provider call of the raw request: method, path, params, options
RawCall ==
    [method |-> req.calls[1].params[1].method,
     path |-> req.calls[1].target,
     params |-> req.calls[1].params[1].params,
     options |-> req.calls[1].params[1].options]

\* The path argument without its surrounding spaces
GivenPath == IF args[1].path = PathPadded THEN PathPlain ELSE args[1].path

\* The query string each query of RawQueries stands for
ExpectedSearch(query) ==
    CASE query = <<>> -> <<>>
      [] query = <<LimitEntry>> -> <<"l", "i", "m", "=", "2", "5">>
      [] query = <<TextEntry, FlagEntry>> ->
            <<"q", "=", "a", "+", "b", "&", "o", "k", "=", "t", "r", "u", "e">>

\* C11: stripe_raw_request applies the query only for GET and DELETE,
\* appended to the path with '&' when the path already contains '?' and
\* with '?' otherwise, and ignores it for POST; the payload is sent only
\* for POST (an empty object when none is given) and GET and DELETE send no
\* body parameters even when a payload is supplied.
C11_QueryAndPayloadByMethod ==
    (IsRawRequest /\ Len(req.calls) > 0) =>
        /\ RawCall.method = args[1].method
        /\ args[1].method = "POST" =>
                /\ RawCall.path = GivenPath
                /\ RawCall.params =
                        IF args[1].payload = None THEN Some(<<>>) ELSE args[1].payload
        /\ args[1].method \in {"GET", "DELETE"} =>
                /\ RawCall.params = None
                /\ args[1].query = None => RawCall.path = GivenPath
                /\ args[1].query # None =>
                        RawCall.path =
                            GivenPath
                            \o (IF GivenPath = PathWithQuery THEN <<"&">> ELSE <<"?">>)
                            \o ExpectedSearch(args[1].query[1])

\* C11 witness: a GET on a path that already has a query string, with a
\* query and a payload: the query went after '&' and no body was sent.
C11_Witness ==
    /\ IsRawRequest
    /\ args[1].method = "GET"
    /\ args[1].path = PathWithQuery
    /\ args[1].query = Some(<<LimitEntry>>)
    /\ args[1].payload = Some(<<TextEntry>>)
    /\ Len(req.calls) = 1
    /\ RawCall.path = <<"/", "v", "1", "/", "c", "?", "a", "=", "1", "&", "l", "i", "m", "=", "2", "5">>
    /\ RawCall.params = None

\* An empty string carries no value
NonEmpty(opt) == IF opt # None /\ opt[1] # <<>> THEN opt ELSE None

\* C12: the connected account sent with a raw request is the request's
\* stripe_account when the request has one, otherwise the configured
\* default_stripe_account, otherwise none (an empty string sends none); an
\* explicit stripe_account takes precedence over the configured default,
\* and the idempotency key and the API-version override are sent exactly
\* when the request supplies a value for them.
C12_AccountPrecedenceAndOptions ==
    (IsRawRequest /\ Len(req.calls) > 0) =>
        /\ RawCall.options.stripeAccount =
                NonEmpty(IF args[1].stripe_account # None
                         THEN args[1].stripe_account
                         ELSE server.given[1].default_stripe_account)
        /\ args[1].stripe_account = Some(acct_2) =>
                RawCall.options.stripeAccount = Some(acct_2)
        /\ RawCall.options.idempotencyKey = NonEmpty(args[1].idempotency_key)
        /\ RawCall.options.apiVersion = NonEmpty(args[1].api_version)

\* C12 witness: acct_1 is the configured default and the request names
\* acct_2 and an idempotency key but no API version: acct_2 and the key
\* were sent, no version.
C12_Witness ==
    /\ IsRawRequest
    /\ server.given[1].default_stripe_account = Some(acct_1)
    /\ args[1].stripe_account = Some(acct_2)
    /\ args[1].idempotency_key = Some(key_1)
    /\ args[1].api_version = None
    /\ Len(req.calls) = 1
    /\ RawCall.options =
            [idempotencyKey |-> Some(key_1), stripeAccount |-> Some(acct_2), apiVersion |-> None]

\* The tools of the README's Tool Reference
ReadmeTools ==
    {"stripe_status", "stripe_fraud_insight", "stripe_create_refund", "stripe_raw_request"}

\* C15: once createServer has completed registration, every tool of the
\* README's Tool Reference (stripe_status, stripe_fraud_insight,
\* stripe_create_refund, stripe_raw_request) is registered.
C15_EveryReadmeToolRegistered ==
    server.created => \A name \in ReadmeTools : Includes(server.tools, name)

\* C17: a raw request whose provider call fails with a Stripe API error
\* does not throw but returns a result flagged isError = true with the
\* error's status, type, code and message; any other failure is rethrown;
\* a successful call never returns isError = true; each invocation issues
\* exactly one provider call.
C17_RawRequestErrorHandling ==
    IsRawRequest =>
        /\ Len(req.calls) = 1
        /\ req.inflight = (IF req.settled = None THEN 1 ELSE 0)
        /\ req.settled = None <=> req.status = "pending"
        /\ (req.settled # None /\ ~req.settled[1].resolved /\ req.settled[1].value.stripe) =>
                /\ req.status = "returned"
                /\ req.isError = Some(TRUE)
                /\ req.response[1].status = req.settled[1].value.statusCode
                /\ req.response[1].type = req.settled[1].value.type
                /\ req.response[1].code = req.settled[1].value.code
                /\ req.response[1].message = req.settled[1].value.message
        /\ (req.settled # None /\ ~req.settled[1].resolved /\ ~req.settled[1].value.stripe) =>
                /\ req.status = "thrown"
                /\ req.response = None
                /\ req.error = Some(req.settled[1].value.message)
        /\ (req.settled # None /\ req.settled[1].resolved) =>
                /\ req.status = "returned"
                /\ req.isError # Some(TRUE)
                /\ req.response[1].status = Some(req.settled[1].value.statusCode)

\* C17 witness: the provider rejected with a card error of status 402 and
\* the tool returned it flagged as an error, after a single call.
C17_Witness ==
    /\ IsRawRequest
    /\ req.settled # None
    /\ ~req.settled[1].resolved
    /\ req.settled[1].value.stripe
    /\ req.settled[1].value.statusCode = Some(402)
    /\ req.status = "returned"
    /\ req.isError = Some(TRUE)
    /\ req.response[1].code = Some("card_declined")
    /\ Len(req.calls) = 1

-----------------------------------------------------------------------------
(* Properties of the Logger, checked under SpecLog *)

\* The keys that name a secret
NamesSecret(key) ==
    key \in {k_api_key, k_apiKey, k_stripe_api_key, k_authorization, k_token, k_secret}

RECURSIVE FullyRedacted(_)
FullyRedacted(node) ==
    CASE node.kind = "object" ->
            \A i \in DOMAIN node.entries :
                IF NamesSecret(node.entries[i].key)
                THEN node.entries[i].value = StringNode(Redacted)
                ELSE FullyRedacted(node.entries[i].value)
      [] node.kind = "array" -> \A i \in DOMAIN node.items : FullyRedacted(node.items[i])
      [] OTHER -> TRUE

\* C13: in every log entry emitted, every context value stored under a key
\* naming a secret (api_key, apiKey, stripe_api_key, authorization, token,
\* secret), at any nesting depth of the context, is replaced by
\* '[REDACTED]', so its original value does not appear in the output.
C13_SecretsRedacted ==
    (emitted # None /\ emitted[1].context # None) => FullyRedacted(emitted[1].context[1])

\* The order debug < info < warn < error
Rank == [debug |-> 1, info |-> 2, warn |-> 3, error |-> 4]

\* The log_level of the configuration, 'info' when it has none
ConfiguredLevel ==
    IF server.given[1].log_level = None THEN "info" ELSE server.given[1].log_level[1]

RECURSIVE Depth(_)
Depth(i) == IF loggers[i].parent = 0 THEN 1 ELSE 1 + Depth(loggers[i].parent)

\* C14: log_level is the minimum level emitted: a message is written if and
\* only if its level is at or above the configured level (default 'info')
\* in the order debug < info < warn < error, and every logger obtained
\* through child(), at any depth, filters with the level of the logger it
\* was created from.
C14_MinimumLevelAtAnyDepth ==
    server.created =>
        /\ \A i \in DOMAIN loggers :
                /\ loggers[i].level = ConfiguredLevel
                /\ loggers[i].parent # 0 =>
                        loggers[i].level = loggers[loggers[i].parent].level
        /\ logCall # None =>
                /\ emitted # None <=> Rank[logCall[1].level] >= Rank[ConfiguredLevel]
                /\ emitted # None => emitted[1].level = logCall[1].level

\* C14 witness: log_level is 'error'; a logger four levels deep was asked
\* to log a warning and wrote nothing.
C14_Witness ==
    /\ server.created
    /\ server.given[1].log_level = Some("error")
    /\ logCall # None
    /\ Depth(logCall[1].logger) = 4
    /\ logCall[1].level = "warn"
    /\ logCall[1].message = "message"
    /\ emitted = None

====
